---- MODULE Spec2Model ----
(***************************************************************************)
(* TerminalAI (src/ai.py): the command-safety classifier, the command plan *)
(* split, the execution engine's history handling, the command-history log *)
(* and the confirmation / execution flow of the __main__ script.           *)
(*                                                                         *)
(* Texts (commands, patterns, oracle replies, keyboard answers) are        *)
(* sequences of one-character strings, so that the substring, prefix,      *)
(* strip, split and lower-casing operations of the code are computed       *)
(* rather than assumed.                                                    *)
(***************************************************************************)
EXTENDS Integers, Sequences, FiniteSets, TLC

(***************************************************************************)
(* Python str helpers used by the code.                                    *)
(***************************************************************************)
UpperChars ==
    <<"A", "B", "C", "D", "E", "F", "G", "H", "I", "J", "K", "L", "M",
      "N", "O", "P", "Q", "R", "S", "T", "U", "V", "W", "X", "Y", "Z">>

LowerChars ==
    <<"a", "b", "c", "d", "e", "f", "g", "h", "i", "j", "k", "l", "m",
      "n", "o", "p", "q", "r", "s", "t", "u", "v", "w", "x", "y", "z">>

\* The backtick character, which a TLA+ string cannot hold
BT == "backtick"

DigitChars == <<"0", "1", "2", "3", "4", "5", "6", "7", "8", "9">>

Whitespace == {" ", "\t", "\n", "\r"}

Range(s) == {s[i] : i \in 1..Len(s)}

Last(s) == s[Len(s)]

\* str.lower() on one character
LowerChar(c) ==
    IF \E i \in 1..Len(UpperChars) : UpperChars[i] = c
    THEN LowerChars[CHOOSE i \in 1..Len(UpperChars) : UpperChars[i] = c]
    ELSE c

\* str.lower()
lower(s) == [i \in 1..Len(s) |-> LowerChar(s[i])]

\* Python's  sub in s
Contains(sub, s) ==
    \E i \in 0..(Len(s) - Len(sub)) : SubSeq(s, i + 1, i + Len(sub)) = sub

\* str.startswith
startswith(s, prefix) ==
    Len(prefix) <= Len(s) /\ SubSeq(s, 1, Len(prefix)) = prefix

\* str.strip(): leading and trailing whitespace removed
strip(s) ==
    LET keep == {i \in 1..Len(s) : s[i] \notin Whitespace}
    IN  IF keep = {} THEN <<>>
        ELSE SubSeq(s, CHOOSE i \in keep : \A j \in keep : i <= j,
                       CHOOSE i \in keep : \A j \in keep : j <= i)

\* str.split(sep) for a one-character separator: always at least one field
RECURSIVE split(_, _)
split(s, sep) ==
    IF \A i \in 1..Len(s) : s[i] # sep THEN <<s>>
    ELSE LET k == CHOOSE i \in 1..Len(s) :
                      s[i] = sep /\ \A j \in 1..(i - 1) : s[j] # sep
         IN  <<SubSeq(s, 1, k - 1)>> \o split(SubSeq(s, k + 1, Len(s)), sep)

\* str.replace(old, new): leftmost non-overlapping occurrences, old non-empty
RECURSIVE replace(_, _, _)
replace(s, old, new) ==
    IF s = <<>> THEN <<>>
    ELSE IF startswith(s, old)
         THEN new \o replace(SubSeq(s, Len(old) + 1, Len(s)), old, new)
         ELSE <<s[1]>> \o replace(Tail(s), old, new)

\* str.isdigit() for ASCII input
isdigit(s) == s # <<>> /\ \A i \in 1..Len(s) : s[i] \in Range(DigitChars)

\* int(s) for a string of ASCII digits
RECURSIVE int(_)
int(s) ==
    IF s = <<>> THEN 0
    ELSE 10 * int(SubSeq(s, 1, Len(s) - 1))
         + (CHOOSE d \in 0..9 : DigitChars[d + 1] = Last(s))

(***************************************************************************)
(* re.search(pattern, cmd, re.IGNORECASE) for the patterns of the model:   *)
(* literal text, optionally anchored at the start with ^.                  *)
(***************************************************************************)
re_search(pattern, cmd) ==
    IF pattern # <<>> /\ pattern[1] = "^"
    THEN startswith(lower(cmd), lower(Tail(pattern)))
    ELSE Contains(lower(pattern), lower(cmd))

(***************************************************************************)
(* The pattern files.  A file is [state, lines]; state is "present",       *)
(* "absent" or "unreadable"; lines are the file's lines without their line *)
(* terminator.                                                             *)
(***************************************************************************)
AbsentFile == [state |-> "absent", lines |-> <<>>]

\* A file that exists and cannot be opened (permission denied)
UnreadableFile == [state |-> "unreadable", lines |-> <<>>]

PresentFile(ls) == [state |-> "present", lines |-> ls]

\* The list comprehension over an opened pattern file; FileNotFoundError
\* leaves the list empty.
read_patterns(file) ==
    IF file.state = "present"
    THEN LET kept == SelectSeq(file.lines,
                         LAMBDA line : strip(line) # <<>>
                                       /\ ~startswith(line, <<"#">>))
         IN  [i \in 1..Len(kept) |-> strip(kept[i])]
    ELSE <<>>

ShellTokens ==
    { <<"s", "h">>, <<"b", "a", "s", "h">>,
      <<"p", "o", "w", "e", "r", "s", "h", "e", "l", "l">>, <<"c", "m", "d">>,
      <<"i", "n", "v", "o", "k", "e", "-", "e", "x", "p", "r", "e", "s", "s",
        "i", "o", "n">>,
      <<"i", "e", "x">> }

SystemPaths ==
    { <<"/", "e", "t", "c">>, <<"/", "b", "i", "n">>,
      <<"/", "s", "b", "i", "n">>, <<"/", "u", "s", "r">>,
      <<"c", ":", "\\", "w", "i", "n", "d", "o", "w", "s">>,
      <<"%", "w", "i", "n", "d", "i", "r", "%">>,
      <<"s", "y", "s", "t", "e", "m", "3", "2">> }

DownloadTools ==
    { <<"w", "g", "e", "t">>, <<"c", "u", "r", "l">>,
      <<"i", "n", "v", "o", "k", "e", "-", "w", "e", "b", "r", "e", "q", "u",
        "e", "s", "t">>,
      <<"s", "t", "a", "r", "t", "-", "b", "i", "t", "s", "t", "r", "a", "n",
        "s", "f", "e", "r">> }

\* The first pattern of the list that re.search finds in c, as a set
FirstMatch(patterns, c) ==
    {i \in 1..Len(patterns) :
        /\ re_search(patterns[i], c)
        /\ \A j \in 1..(i - 1) : ~re_search(patterns[j], c)}

\* A plausible slip: the dangerous scan and the heuristics run before the
\* safe scan.
analyze_command_safety_DangerousFirst(c, dfile, sfile) ==
    LET dangerous_patterns == read_patterns(dfile)
        safe_patterns == read_patterns(sfile)
    IN  IF FirstMatch(dangerous_patterns, c) # {}
        THEN [is_safe |-> FALSE, reason |-> "dangerous pattern"]
        ELSE IF Contains(<<"|">>, c)
                /\ \E t \in ShellTokens : Contains(t, lower(c))
        THEN [is_safe |-> FALSE, reason |-> "pipes output to a shell"]
        ELSE IF Contains(<<">">>, c)
                /\ \E p \in SystemPaths : Contains(p, lower(c))
        THEN [is_safe |-> FALSE, reason |-> "redirects to system directories"]
        ELSE IF \E d \in DownloadTools : startswith(lower(c), d)
        THEN [is_safe |-> FALSE, reason |-> "downloads content"]
        ELSE IF FirstMatch(safe_patterns, c) # {}
        THEN [is_safe |-> TRUE, reason |-> "appears to be safe"]
        ELSE [is_safe |-> TRUE, reason |-> "no obvious dangerous patterns"]

\* analyze_command_safety(cmd), reading both pattern files
analyze_command_safety(c, dfile, sfile) ==
    LET dangerous_patterns == read_patterns(dfile)
        safe_patterns == read_patterns(sfile)
    IN  IF FirstMatch(safe_patterns, c) # {}
        THEN [is_safe |-> TRUE, reason |-> "appears to be safe"]
        ELSE IF FirstMatch(dangerous_patterns, c) # {}
        THEN [is_safe |-> FALSE, reason |-> "dangerous pattern"]
        ELSE IF Contains(<<"|">>, c)
                /\ \E t \in ShellTokens : Contains(t, lower(c))
        THEN [is_safe |-> FALSE, reason |-> "pipes output to a shell"]
        ELSE IF Contains(<<">">>, c)
                /\ \E p \in SystemPaths : Contains(p, lower(c))
        THEN [is_safe |-> FALSE, reason |-> "redirects to system directories"]
        ELSE IF \E d \in DownloadTools : startswith(lower(c), d)
        THEN [is_safe |-> FALSE, reason |-> "downloads content"]
        ELSE [is_safe |-> TRUE, reason |-> "no obvious dangerous patterns"]

(***************************************************************************)
(* The command-history log (command_history.pkl): a list of commands,      *)
(* most recent last.  A missing file loads as the empty list.              *)
(***************************************************************************)
DefaultLimit == 100

\* A plausible slip: history[:limit], which keeps the oldest entries.
save_command_history_KeepOldest(history, limit) ==
    IF Len(history) <= limit THEN history ELSE SubSeq(history, 1, limit)

\* A plausible slip: the slice is forgotten and the whole list is written.
save_command_history_NoCap(history, limit) == history

\* save_command_history: the list written is history[-limit:]
save_command_history(history, limit) ==
    IF Len(history) <= limit THEN history
    ELSE SubSeq(history, Len(history) - limit + 1, Len(history))

\* A plausible slip: no comparison with the last entry.
add_to_command_history_NoDedup(file, command) ==
    save_command_history(Append(file, command), DefaultLimit)

\* A plausible slip: the append is left out.
add_to_command_history_Dropped(file, command) == file

\* A plausible slip: the command's earlier occurrences are removed, so that
\* the command is moved to the end.
add_to_command_history_MoveToTop(file, command) ==
    save_command_history(
        Append(SelectSeq(file, LAMBDA c : c # command), command), DefaultLimit)

\* add_to_command_history: the file's content after the call (the open for
\* writing is taken to succeed; the code has no handler for its failure)
add_to_command_history(file, command) ==
    IF file = <<>> \/ Last(file) # command
    THEN save_command_history(Append(file, command), DefaultLimit)
    ELSE file

(***************************************************************************)
(* The execution engine.  env is the process environment of the run:       *)
(* [platform, shell_type, shell, NOHISTORY, history_writable,              *)
(* log_writable, api]: history_writable and log_writable say whether the   *)
(* shell's history file and command_history.pkl can be opened for writing, *)
(* api is "ok" or, when a call of the API can raise, "flaky".              *)
(***************************************************************************)
NoLine == <<>>

\* str(int(time.time())) at the moment of the write
time_time == <<"1", "7", "0", "0", "0", "0", "0", "0", "0", "0">>

\* new_history_line of execute_and_handle_history; NoLine where the code has
\* history_file = None
new_history_line(e, c) ==
    IF e.platform = "Windows"
    THEN IF e.shell_type = "powershell" THEN c \o <<"\n">> ELSE NoLine
    ELSE IF Contains(<<"/", "b", "i", "n", "/", "b", "a", "s", "h">>, e.shell)
         THEN c \o <<"\n">>
    ELSE IF Contains(<<"/", "b", "i", "n", "/", "z", "s", "h">>, e.shell)
         THEN <<":", " ">> \o time_time \o <<":", "0", ";">> \o c \o <<"\n">>
    ELSE IF Contains(<<"/", "b", "i", "n", "/", "f", "i", "s", "h">>, e.shell)
         THEN c \o <<"\n">>
    ELSE NoLine

\* A plausible slip: the write is left out.
write_shell_history_Skipped(file, e, c) == file

\* The shell-native history file after execute_and_handle_history's write
\* (an IOError on the write is caught and logged)
write_shell_history(file, e, c) ==
    IF ~e.NOHISTORY /\ new_history_line(e, c) # NoLine /\ e.history_writable
    THEN Append(file, new_history_line(e, c))
    ELSE file

\* sys.exit(code): the status the parent process sees
SysExit(code) == code % 256

(***************************************************************************)
(* The oracle's answers, as the code post-processes them.                  *)
(***************************************************************************)
NoCommandGenerated ==
    <<"e", "c", "h", "o", " ", "'", "E", "r", "r", "o", "r", ":", " ", "N",
      "o", " ", "c", "o", "m", "m", "a", "n", "d", " ", "g", "e", "n", "e",
      "r", "a", "t", "e", "d", "'">>

NoCommandsGenerated ==
    <<"e", "c", "h", "o", " ", "'", "E", "r", "r", "o", "r", ":", " ", "N",
      "o", " ", "c", "o", "m", "m", "a", "n", "d", "s", " ", "g", "e", "n",
      "e", "r", "a", "t", "e", "d", "'">>

NoValidCommandsGenerated ==
    <<"e", "c", "h", "o", " ", "'", "E", "r", "r", "o", "r", ":", " ", "N",
      "o", " ", "v", "a", "l", "i", "d", " ", "c", "o", "m", "m", "a", "n",
      "d", "s", " ", "g", "e", "n", "e", "r", "a", "t", "e", "d", "'">>

\* The backtick sanitising of get_cmd and get_cmd_list
sanitize(content) ==
    replace(replace(content, <<BT, BT, BT, "b", "a", "s", "h", "\n">>, <<>>),
            <<"\n", BT, BT, BT>>, <<>>)

\* get_cmd: content is the reply's message content, <<>> when the reply has
\* no choices or no content
get_cmd(content) ==
    IF content = <<>> THEN NoCommandGenerated ELSE strip(sanitize(content))

\* A plausible slip: the filter on blank lines is left out.
split_commands_KeepBlank(cmd_or_sequence) ==
    LET parts == split(cmd_or_sequence, "\n")
    IN  [i \in 1..Len(parts) |-> strip(parts[i])]

\* A plausible slip: the lines are filtered and not stripped.
split_commands_NoStrip(cmd_or_sequence) ==
    SelectSeq(split(cmd_or_sequence, "\n"), LAMBDA c : strip(c) # <<>>)

\* The split of the oracle text into command steps
split_commands(cmd_or_sequence) ==
    LET parts == split(cmd_or_sequence, "\n")
        kept == SelectSeq(parts, LAMBDA c : strip(c) # <<>>)
    IN  [i \in 1..Len(kept) |-> strip(kept[i])]

\* All the orders list(set(...)) can give the elements of S
Orders(S) ==
    {s \in [1..Cardinality(S) -> S] : \A x \in S : \E i \in DOMAIN s : s[i] = x}

\* get_cmd_list: the lists the call can return for the reply's choices
get_cmd_list(choices) ==
    IF choices = <<>> THEN {<<NoCommandsGenerated>>}
    ELSE LET with_content == SelectSeq(choices, LAMBDA c : c # <<>>)
             cmd_list == [i \in 1..Len(with_content) |->
                             strip(sanitize(with_content[i]))]
         IN  IF cmd_list = <<>> THEN {<<NoValidCommandsGenerated>>}
             ELSE Orders({x \in Range(cmd_list) : x # <<>>})

(***************************************************************************)
(* Bounded inputs.                                                         *)
(***************************************************************************)
c_ls == <<"l", "s">>

c_id == <<"i", "d">>

c_rm == <<"r", "m", " ", "-", "r", "f", " ", "/">>

\* Lengths of the short initial command-history logs: 0..MaxShort
MaxShort == 1

\* The long initial logs have DefaultLimit - MaxPad .. DefaultLimit entries
MaxPad == 1

\* A log of n entries alternating ls and id, as earlier runs leave it: no
\* two adjacent entries equal, at most DefaultLimit entries
Alternating(n) == [i \in 1..n |-> IF i % 2 = 1 THEN c_ls ELSE c_id]

InitialHistories ==
    {Alternating(n) :
        n \in (0..MaxShort) \cup ((DefaultLimit - MaxPad)..DefaultLimit)}

DangerousFiles ==
    { AbsentFile,
      PresentFile(<< <<"#", " ", "d", "a", "n", "g", "e", "r", "o", "u", "s">>,
                     <<"r", "m", " ", "-", "r", "f">>,
                     <<>>,
                     <<" ", " ", "m", "k", "f", "s", " ", " ">> >>) }

SafeFiles ==
    { AbsentFile,
      PresentFile(<< <<"#", " ", "s", "a", "f", "e">>,
                     <<"^", "l", "s">>,
                     <<"^", "e", "c", "h", "o">>,
                     <<"c", "u", "r", "l", " ", "-", "I">> >>) }

Environments ==
    { [platform |-> "Linux", shell_type |-> "unix",
       shell |-> <<"/", "b", "i", "n", "/", "b", "a", "s", "h">>,
       NOHISTORY |-> FALSE, history_writable |-> TRUE,
       log_writable |-> TRUE, api |-> "ok"],
      [platform |-> "Linux", shell_type |-> "unix",
       shell |-> <<"/", "b", "i", "n", "/", "z", "s", "h">>,
       NOHISTORY |-> FALSE, history_writable |-> TRUE,
       log_writable |-> TRUE, api |-> "ok"],
      [platform |-> "Linux", shell_type |-> "unix",
       shell |-> <<"/", "u", "s", "r", "/", "b", "i", "n", "/", "f", "i", "s", "h">>,
       NOHISTORY |-> FALSE, history_writable |-> FALSE,
       log_writable |-> TRUE, api |-> "ok"],
      [platform |-> "Linux", shell_type |-> "unix",
       shell |-> <<"/", "b", "i", "n", "/", "s", "h">>,
       NOHISTORY |-> FALSE, history_writable |-> TRUE,
       log_writable |-> TRUE, api |-> "ok"],
      [platform |-> "Windows", shell_type |-> "powershell",
       shell |-> <<"c", "m", "d", ".", "e", "x", "e">>,
       NOHISTORY |-> TRUE, history_writable |-> TRUE,
       log_writable |-> TRUE, api |-> "ok"] }

\* Message contents the oracle returns to get_cmd
CommandReplies ==
    { <<>>,
      c_ls,
      c_rm,
      <<BT, BT, BT, "b", "a", "s", "h", "\n", "i", "d", "\n", BT, BT, BT>>,
      <<"\n">>,
      <<"l", "s", "\n", "\n", "i", "d", "\n">>,
      <<"i", "d", "\n", "i", "d", "\n", "l", "s">>,
      <<"l", "s", "\n", "r", "m", " ", "-", "r", "f", " ", "/", "\n", "i", "d">> }

\* The choices the oracle returns to get_cmd_list
AlternativeReplies ==
    { <<>>,
      << <<>> >>,
      << <<" ">> >>,
      << c_id, <<"i", "d", "\n">> >>,
      << c_ls, c_rm >> }

\* What the oracle returns to get_fixed_cmd
FixReplies == {c_ls, c_rm}

\* Keyboard answers to a [Y/n] prompt
Answers == { <<>>, <<"n">>, <<"N">>, <<"n", "o">> }

\* Keyboard answers to the alternatives prompt
Choices == { <<"0">>, <<"1">>, <<"0", "1">>, <<"5">>, <<>>, <<"q">> }

\* What a run of a command gives back: exit code (0..255) and standard
\* error; 127 is also what the FileNotFoundError handler returns
Outcomes ==
    { [returncode |-> 0, stderr |-> ""],
      [returncode |-> 1, stderr |-> "error"],
      [returncode |-> 2, stderr |-> ""],
      [returncode |-> 127, stderr |-> "Command not found"] }

(***************************************************************************)
(* State.                                                                  *)
(***************************************************************************)
VARIABLES
    pc,                     \* where the script is
    safety_mode,            \* get_safety_mode()
    autocorrect_mode,       \* get_autocorrect_mode()
    env,                    \* platform, shell, NOHISTORY, file permissions
    dangerous_patterns_txt, \* dangerous_patterns.txt
    safe_patterns_txt,      \* safe_patterns.txt
    command_history,        \* command_history.pkl
    history0,               \* command_history.pkl when the run started
    shell_history,          \* lines this run appended to the shell's file
    commands,               \* the command plan
    cmd,                    \* the single command to execute
    cmds,                   \* the alternatives shown
    idx,                    \* loop index of the sequence loop
    result,                 \* the last CompletedProcess
    fixed_cmd,              \* the auto-correct suggestion
    trace,                  \* classifications, prompts and executions so far
    exit_status,            \* the process exit status, -1 while running
    interrupted,            \* the SIGINT handler ran
    cmd_or_sequence,        \* the text get_cmd returned
    running,                \* a subprocess has been started and not yet reaped
    crashed                 \* the uncaught exception that ended the run, or ""

vars ==
    <<pc, safety_mode, autocorrect_mode, env, dangerous_patterns_txt,
      safe_patterns_txt, command_history, history0, shell_history, commands,
      cmd, cmds, idx, result, fixed_cmd, trace, exit_status, interrupted,
      cmd_or_sequence, running, crashed>>

\* How the run ends
ending == <<exit_status, crashed>>

settings ==
    <<safety_mode, autocorrect_mode, env, dangerous_patterns_txt,
      safe_patterns_txt, history0>>

Event(kind, c, val) == [kind |-> kind, cmd |-> c, val |-> val]

NoResult == [returncode |-> -1, stderr |-> ""]

InitCommon ==
    /\ safety_mode \in {0, 1}
    /\ autocorrect_mode \in BOOLEAN
    /\ dangerous_patterns_txt \in DangerousFiles
    /\ safe_patterns_txt \in SafeFiles
    /\ command_history \in InitialHistories
    /\ history0 = command_history
    /\ shell_history = <<>>
    /\ commands = <<>>
    /\ cmd = <<>>
    /\ cmds = <<>>
    /\ idx = 0
    /\ result = NoResult
    /\ fixed_cmd = <<>>
    /\ trace = <<>>
    /\ exit_status = -1
    /\ interrupted = FALSE
    /\ cmd_or_sequence = <<>>
    /\ running = FALSE
    /\ crashed = ""

Init ==
    /\ pc = "get_cmd"
    /\ env \in Environments
    /\ InitCommon

(***************************************************************************)
(* The __main__ script, one action per blocking call it returns from: an   *)
(* oracle reply, a keyboard answer, a started and a finished subprocess.   *)
(***************************************************************************)
\* sys.exit(code), and the end of the script with code 0
Exit(code) ==
    /\ pc' = "done"
    /\ exit_status' = SysExit(code)
    /\ crashed' = crashed

\* An exception nothing catches: traceback, exit status 1
Crash(exception) ==
    /\ pc' = "done"
    /\ exit_status' = 1
    /\ crashed' = exception

\* Whether a call of the API raises (network or authentication error)
Raises == IF env.api = "flaky" THEN BOOLEAN ELSE {FALSE}

\* open() of a pattern file raises something other than FileNotFoundError
load_raises ==
    \/ dangerous_patterns_txt.state = "unreadable"
    \/ safe_patterns_txt.state = "unreadable"

analyze(c) == analyze_command_safety(c, dangerous_patterns_txt, safe_patterns_txt)

\* A plausible slip: or in place of and, so SafetyMode 1 alone skips the prompt.
need_confirmation_Or(mode, is_safe) == ~(mode = 1 \/ is_safe)

\* need_confirmation of both flows
need_confirmation(mode, is_safe) == ~(mode = 1 /\ is_safe)

\* A plausible slip: every answer that starts with n declines.
declined_Prefix(answer) == startswith(lower(answer), <<"n">>)

\* The answers the prompts treat as a decline
declined(answer) == lower(answer) = <<"n">>

\* A plausible slip: the loop goes on after a failed step.
step_failed_Never(returncode) == FALSE

\* The sequence loop's test of a step's exit code
step_failed(returncode) == returncode # 0

\* A plausible slip: one safe step is enough.
all_safe_Any(cs) == \E i \in 1..Len(cs) : analyze(cs[i]).is_safe

\* all_safe of the sequence flow
all_safe(cs) == \A i \in 1..Len(cs) : analyze(cs[i]).is_safe

\* A plausible slip: the test of stderr is left out.
wants_fix_AnyFailure(returncode, autocorrect, stderr) ==
    returncode # 0 /\ autocorrect

\* The conditions under which the script asks the oracle for a fix
wants_fix(returncode, autocorrect, stderr) ==
    returncode # 0 /\ autocorrect /\ stderr # ""

\* A plausible slip: the index is taken one too low (1-based menu).
pick_OffByOne(list, choice) ==
    list[IF int(choice) = 0 THEN Len(list) ELSE int(choice)]

\* cmds[int(choice)]
pick(list, choice) == list[int(choice) + 1]

\* get_fixed_cmd, as the oracle interface describes it: the reply, or a
\* labelled placeholder when the call failed or returned nothing
get_fixed_cmd(reply, raised) ==
    IF raised \/ reply = <<>> THEN NoCommandGenerated ELSE reply

\* save_command_history cannot open command_history.pkl for writing
log_write_raises(file, command) ==
    /\ file = <<>> \/ Last(file) # command
    /\ ~env.log_writable

\* The command execute_and_handle_history is called with
current_cmd ==
    IF pc = "exec_step" THEN commands[idx + 1]
    ELSE IF pc \in {"exec_single", "exec_history"} THEN cmd
    ELSE fixed_cmd

\* A plausible slip: the picked command goes back to the [Y/n] prompt.
after_choice_Reconfirm == "confirm_single"

\* Where the script goes on once cmd is the picked alternative: the
\* execution, there is no code between the pick and it
after_choice == "exec_single"

\* A plausible slip: the handler returns and the script goes on.
signal_handler_Returns(at) == at

\* signal_handler: where the script is after it, called at position at
signal_handler(at) == "done"

\* get_cmd returns or raises: split, classify, decide whether to prompt
GetCmd(content, raised) ==
    /\ pc = "get_cmd"
    /\ IF raised
       THEN /\ Crash("APIError")
            /\ UNCHANGED <<cmd_or_sequence, commands, cmd, trace>>
       ELSE
       LET cs == split_commands(get_cmd(content))
       IN  /\ cmd_or_sequence' = get_cmd(content)
           /\ IF cs = <<>>
              THEN /\ Exit(1)
                   /\ UNCHANGED <<commands, cmd, trace>>
              ELSE IF load_raises
              THEN /\ Crash("PermissionError")
                   /\ commands' = cs
                   /\ UNCHANGED <<cmd, trace>>
              ELSE IF Len(cs) = 1
              THEN /\ commands' = cs
                   /\ cmd' = cs[1]
                   /\ trace' = Append(trace,
                                  Event("classify", cs[1], analyze(cs[1]).is_safe))
                   /\ pc' = IF need_confirmation(safety_mode, analyze(cs[1]).is_safe)
                            THEN "confirm_single" ELSE "exec_single"
                   /\ UNCHANGED ending
              ELSE /\ commands' = cs
                   /\ trace' = trace \o [i \in 1..Len(cs) |->
                                  Event("classify", cs[i], analyze(cs[i]).is_safe)]
                   /\ pc' = IF need_confirmation(safety_mode, all_safe(cs))
                            THEN "confirm_sequence" ELSE "exec_step"
                   /\ UNCHANGED <<cmd, ending>>
    /\ UNCHANGED <<settings, command_history, shell_history, cmds, idx,
                   result, fixed_cmd, interrupted, running>>

\* "Do you want to execute this command? [Y/n]" is answered
ConfirmSingle(answer) ==
    /\ pc = "confirm_single"
    /\ trace' = Append(trace, Event("prompt", cmd, answer))
    /\ pc' = IF declined(answer) THEN "get_alternatives" ELSE "exec_single"
    /\ UNCHANGED <<settings, command_history, shell_history, commands, cmd,
                   cmds, idx, result, fixed_cmd, ending, interrupted,
                   cmd_or_sequence, running>>

\* get_cmd_list returns or raises: the alternatives are classified and shown
GetCmdList(choices, raised) ==
    /\ pc = "get_alternatives"
    /\ IF raised
       THEN /\ Crash("APIError")
            /\ UNCHANGED <<cmds, trace>>
       ELSE \E list \in get_cmd_list(choices) :
               /\ cmds' = list
               /\ IF load_raises /\ list # <<>>
                  THEN /\ Crash("PermissionError")
                       /\ UNCHANGED trace
                  ELSE /\ trace' = trace \o [i \in 1..Len(list) |->
                              Event("classify", list[i], analyze(list[i]).is_safe)]
                       /\ pc' = "choose_alternative"
                       /\ UNCHANGED ending
    /\ UNCHANGED <<settings, command_history, shell_history, commands, cmd,
                   idx, result, fixed_cmd, interrupted, cmd_or_sequence,
                   running>>

\* "Do you want to execute one of these commands?" is answered
ChooseAlternative(choice) ==
    /\ pc = "choose_alternative"
    /\ trace' = Append(trace, Event("choice", cmd, choice))
    /\ IF isdigit(choice) /\ int(choice) < Len(cmds)
       THEN /\ cmd' = pick(cmds, choice)
            /\ pc' = after_choice
            /\ UNCHANGED ending
       ELSE /\ Exit(1)
            /\ UNCHANGED cmd
    /\ UNCHANGED <<settings, command_history, shell_history, commands, cmds,
                   idx, result, fixed_cmd, interrupted, cmd_or_sequence,
                   running>>

\* "Do you want to execute this entire sequence? [Y/n]" is answered
ConfirmSequence(answer) ==
    /\ pc = "confirm_sequence"
    /\ trace' = Append(trace, Event("prompt", <<>>, answer))
    /\ IF declined(answer)
       THEN Exit(1)
       ELSE pc' = "exec_step" /\ UNCHANGED ending
    /\ UNCHANGED <<settings, command_history, shell_history, commands, cmd,
                   cmds, idx, result, fixed_cmd, interrupted, cmd_or_sequence,
                   running>>

\* execute_and_handle_history up to subprocess.run: the command is appended
\* to the shell's history file, then the shell process is started
StartExec ==
    /\ pc \in {"exec_step", "exec_single", "exec_fix", "exec_history"}
    /\ ~running
    /\ shell_history' = write_shell_history(shell_history, env, current_cmd)
    /\ running' = TRUE
    /\ UNCHANGED <<pc, settings, command_history, commands, cmd, cmds, idx,
                   result, fixed_cmd, trace, ending, interrupted,
                   cmd_or_sequence>>

\* One pass of the sequence loop: step idx+1 has run and returned out
ExecStep(out) ==
    /\ pc = "exec_step"
    /\ running
    /\ running' = FALSE
    /\ LET c == commands[idx + 1]
       IN  /\ trace' = Append(trace, Event("exec", c, out.returncode))
           /\ result' = out
           /\ IF step_failed(out.returncode)
              THEN /\ Exit(out.returncode)
                   /\ UNCHANGED <<command_history, idx>>
              ELSE IF log_write_raises(command_history, c)
              THEN /\ Crash("OSError")
                   /\ UNCHANGED <<command_history, idx>>
              ELSE /\ command_history' = add_to_command_history(command_history, c)
                   /\ idx' = idx + 1
                   /\ IF idx + 1 = Len(commands)
                      THEN Exit(0)
                      ELSE pc' = "exec_step" /\ UNCHANGED ending
    /\ UNCHANGED <<settings, shell_history, commands, cmd, cmds, fixed_cmd,
                   interrupted, cmd_or_sequence>>

\* The single command has run and returned out; the script then either asks
\* the oracle for a fix or ends
ExecSingle(out) ==
    /\ pc = "exec_single"
    /\ running
    /\ running' = FALSE
    /\ trace' = Append(trace, Event("exec", cmd, out.returncode))
    /\ result' = out
    /\ IF out.returncode = 0 /\ log_write_raises(command_history, cmd)
       THEN /\ Crash("OSError")
            /\ UNCHANGED command_history
       ELSE /\ command_history' = IF out.returncode = 0
                                  THEN add_to_command_history(command_history, cmd)
                                  ELSE command_history
            /\ IF wants_fix(out.returncode, autocorrect_mode, out.stderr)
               THEN pc' = "get_fix" /\ UNCHANGED ending
               ELSE Exit(0)
    /\ UNCHANGED <<settings, shell_history, commands, cmd, cmds, idx,
                   fixed_cmd, interrupted, cmd_or_sequence>>

\* get_fixed_cmd returns: the fix is classified and shown
GetFixedCmd(reply, raised) ==
    /\ pc = "get_fix"
    /\ fixed_cmd' = get_fixed_cmd(reply, raised)
    /\ IF load_raises
       THEN /\ Crash("PermissionError")
            /\ UNCHANGED trace
       ELSE /\ trace' = Append(trace, Event("classify", get_fixed_cmd(reply, raised),
                              analyze(get_fixed_cmd(reply, raised)).is_safe))
            /\ pc' = "confirm_fix"
            /\ UNCHANGED ending
    /\ UNCHANGED <<settings, command_history, shell_history, commands, cmd,
                   cmds, idx, result, interrupted, cmd_or_sequence, running>>

\* The fix's "Do you want to execute this command? [Y/n]" is answered
ConfirmFix(answer) ==
    /\ pc = "confirm_fix"
    /\ trace' = Append(trace, Event("prompt", fixed_cmd, answer))
    /\ IF ~declined(answer)
       THEN pc' = "exec_fix" /\ UNCHANGED ending
       ELSE Exit(0)
    /\ UNCHANGED <<settings, command_history, shell_history, commands, cmd,
                   cmds, idx, result, fixed_cmd, interrupted, cmd_or_sequence,
                   running>>

\* The fixed command has run and returned out (fixed_result); the script ends
ExecFix(out) ==
    /\ pc = "exec_fix"
    /\ running
    /\ running' = FALSE
    /\ trace' = Append(trace, Event("exec", fixed_cmd, out.returncode))
    /\ Exit(0)
    /\ UNCHANGED <<settings, command_history, shell_history, commands, cmd,
                   cmds, idx, result, fixed_cmd, interrupted, cmd_or_sequence>>

\* Ctrl-C while the script waits: signal_handler calls sys.exit(0), and
\* subprocess.run kills the child it was waiting for
Interrupt ==
    /\ pc # "done"
    /\ interrupted' = TRUE
    /\ pc' = signal_handler(pc)
    /\ exit_status' = SysExit(0)
    /\ running' = FALSE
    /\ UNCHANGED <<settings, command_history, shell_history, commands, cmd,
                   cmds, idx, result, fixed_cmd, trace, cmd_or_sequence,
                   crashed>>

Next ==
    \/ \E content \in CommandReplies, raised \in Raises :
          GetCmd(content, raised)
    \/ \E answer \in Answers : ConfirmSingle(answer)
    \/ \E choices \in AlternativeReplies, raised \in Raises :
          GetCmdList(choices, raised)
    \/ \E choice \in Choices : ChooseAlternative(choice)
    \/ \E answer \in Answers : ConfirmSequence(answer)
    \/ StartExec
    \/ \E out \in Outcomes : ExecStep(out)
    \/ \E out \in Outcomes : ExecSingle(out)
    \/ \E reply \in FixReplies, raised \in Raises :
          GetFixedCmd(reply, raised)
    \/ \E answer \in Answers : ConfirmFix(answer)
    \/ \E out \in Outcomes : ExecFix(out)
    \/ Interrupt

Spec == Init /\ [][Next]_vars

(***************************************************************************)
(* The same script where the environment fails it: command_history.pkl     *)
(* cannot be written, or the calls of the API can raise.                   *)
(***************************************************************************)
FaultyEnvironments ==
    { [platform |-> "Linux", shell_type |-> "unix",
       shell |-> <<"/", "b", "i", "n", "/", "b", "a", "s", "h">>,
       NOHISTORY |-> FALSE, history_writable |-> FALSE,
       log_writable |-> FALSE, api |-> "ok"],
      [platform |-> "Linux", shell_type |-> "unix",
       shell |-> <<"/", "b", "i", "n", "/", "z", "s", "h">>,
       NOHISTORY |-> FALSE, history_writable |-> TRUE,
       log_writable |-> TRUE, api |-> "flaky"] }

InitFaults ==
    /\ pc = "get_cmd"
    /\ env \in FaultyEnvironments
    /\ InitCommon

SpecFaults == InitFaults /\ [][Next]_vars

(***************************************************************************)
(* The --history mode: manage_command_history shows the log and re-runs    *)
(* the entry the user picks; the script then ends with sys.exit(0).        *)
(***************************************************************************)
\* Keyboard answers to "Enter a number to re-run a command, or 'q' to quit"
HistoryChoices ==
    { <<"1">>, <<"2">>, <<" ", "1">>, <<"1", "0", "0">>, <<"1", "0", "1">>,
      <<"0">>, <<"q">>, <<"Q">>, <<>>, <<"x">> }

\* int(choice) raises ValueError (choice is not a number)
ValueError(choice) == ~isdigit(choice)

\* 0 <= choice_idx < len(history)
valid_selection(choice_idx, history) ==
    0 <= choice_idx /\ choice_idx < Len(history)

\* history[choice_idx]
cmd_to_run(history, choice_idx) == history[choice_idx + 1]

InitHistory ==
    /\ pc = "history"
    /\ env \in Environments
    /\ InitCommon

\* manage_command_history loads the log and shows it, or finds it empty
ShowHistory ==
    /\ pc = "history"
    /\ IF command_history = <<>>
       THEN Exit(0)
       ELSE pc' = "history_menu" /\ UNCHANGED ending
    /\ UNCHANGED <<settings, command_history, shell_history, commands, cmd,
                   cmds, idx, result, fixed_cmd, trace, interrupted,
                   cmd_or_sequence, running>>

\* The menu is answered: quit, not a number, out of range, or an entry
HistoryChoose(choice) ==
    /\ pc = "history_menu"
    /\ trace' = Append(trace, Event("choice", <<>>, choice))
    /\ LET c == strip(choice)
       IN  IF lower(c) = <<"q">> \/ c = <<>> \/ ValueError(c)
           THEN Exit(0) /\ UNCHANGED cmd
           ELSE IF valid_selection(int(c) - 1, command_history)
           THEN /\ cmd' = cmd_to_run(command_history, int(c) - 1)
                /\ pc' = "history_confirm"
                /\ UNCHANGED ending
           ELSE Exit(0) /\ UNCHANGED cmd
    /\ UNCHANGED <<settings, command_history, shell_history, commands, cmds,
                   idx, result, fixed_cmd, interrupted, cmd_or_sequence,
                   running>>

\* "Execute this command? [Y/n]" is answered
HistoryConfirm(answer) ==
    /\ pc = "history_confirm"
    /\ trace' = Append(trace, Event("prompt", cmd, answer))
    /\ IF ~declined(answer)
       THEN pc' = "exec_history" /\ UNCHANGED ending
       ELSE Exit(0)
    /\ UNCHANGED <<settings, command_history, shell_history, commands, cmd,
                   cmds, idx, result, fixed_cmd, interrupted, cmd_or_sequence,
                   running>>

\* The re-run command has returned out; the menu function returns and the
\* script ends
ExecHistory(out) ==
    /\ pc = "exec_history"
    /\ running
    /\ running' = FALSE
    /\ trace' = Append(trace, Event("exec", cmd, out.returncode))
    /\ result' = out
    /\ IF out.returncode = 0 /\ log_write_raises(command_history, cmd)
       THEN /\ Crash("OSError")
            /\ UNCHANGED command_history
       ELSE /\ command_history' = IF out.returncode = 0
                                  THEN add_to_command_history(command_history, cmd)
                                  ELSE command_history
            /\ Exit(0)
    /\ UNCHANGED <<settings, shell_history, commands, cmd, cmds, idx,
                   fixed_cmd, interrupted, cmd_or_sequence>>

NextHistory ==
    \/ ShowHistory
    \/ \E choice \in HistoryChoices : HistoryChoose(choice)
    \/ \E answer \in Answers : HistoryConfirm(answer)
    \/ StartExec
    \/ \E out \in Outcomes : ExecHistory(out)
    \/ Interrupt

SpecHistory == InitHistory /\ [][NextHistory]_vars

(***************************************************************************)
(* The script in either mode, with or without --history.                   *)
(***************************************************************************)
InitModes == Init \/ InitHistory

NextModes ==
    \/ Next
    \/ ShowHistory
    \/ \E choice \in HistoryChoices : HistoryChoose(choice)
    \/ \E answer \in Answers : HistoryConfirm(answer)
    \/ \E out \in Outcomes : ExecHistory(out)

SpecModes == InitModes /\ [][NextModes]_vars

(***************************************************************************)
(* The split alone, over every short text of letters, blanks and newlines. *)
(***************************************************************************)
\* The longest oracle text of SpecSplit
MaxTextLen == 5

TextChars == {"a", " ", "\n"}

Texts == UNION {[1..n -> TextChars] : n \in 0..MaxTextLen}

InitSplit ==
    /\ pc = "split"
    /\ cmd_or_sequence \in Texts
    /\ safety_mode = 0
    /\ autocorrect_mode = FALSE
    /\ env \in {e \in Environments : e.shell_type = "unix" /\ e.history_writable}
    /\ dangerous_patterns_txt = AbsentFile
    /\ safe_patterns_txt = AbsentFile
    /\ command_history = <<>>
    /\ history0 = <<>>
    /\ shell_history = <<>>
    /\ commands = <<>>
    /\ cmd = <<>>
    /\ cmds = <<>>
    /\ idx = 0
    /\ result = NoResult
    /\ fixed_cmd = <<>>
    /\ trace = <<>>
    /\ exit_status = -1
    /\ interrupted = FALSE
    /\ running = FALSE
    /\ crashed = ""

\* commands = [c.strip() for c in cmd_or_sequence.split('\n') if c.strip()]
Split ==
    /\ pc = "split"
    /\ commands' = split_commands(cmd_or_sequence)
    /\ pc' = "done"
    /\ UNCHANGED <<settings, command_history, shell_history, cmd, cmds, idx,
                   result, fixed_cmd, trace, ending, interrupted,
                   cmd_or_sequence, running>>

NextSplit == Split

SpecSplit == InitSplit /\ [][NextSplit]_vars

(***************************************************************************)
(* The classifier alone: commands are classified one after another under   *)
(* pattern files that are absent, present as shipped, or edited.           *)
(***************************************************************************)
\* How many classifications a behaviour of SpecClassify makes
MaxClassified == 2

ClassifyInputs ==
    { c_ls, c_id, c_rm,
      <<"L", "S", " ", "-", "l", "a">>,
      <<"l", "s", ";", " ", "r", "m", " ", "-", "r", "f", " ", "/">>,
      <<"l", "s", " ", "|", " ", "s", "h">>,
      <<"e", "c", "h", "o", " ", "x", " ", ">", " ", "/", "e", "t", "c", "/", "p">>,
      <<"c", "u", "r", "l", " ", "-", "I", " ", "u">>,
      <<"c", "u", "r", "l", " ", "u">>,
      <<"s", "u", "d", "o", " ", "r", "m", " ", "-", "r", "f", " ", "/", " ",
        "-", "-", "n", "o", "-", "p", "r", "e", "s", "e", "r", "v", "e", "-",
        "r", "o", "o", "t">>,
      <<"i", "d", " ", "|", " ", "b", "a", "s", "h">>,
      <<"i", "d", " ", ">", " ", "/", "u", "s", "r", "/", "x">>,
      <<"m", "k", "f", "s", " ", "/", "d", "e", "v", "/", "s", "d", "a">>,
      <<"w", "g", "e", "t", " ", "u">>,
      <<"R", "M", " ", "-", "R", "F", " ", "/">>,
      <<"g", "i", "t", " ", "p", "u", "s", "h", " ", "|", " ", "c", "a", "t">>,
      <<"i", "d", " ", ">", " ", "o", "u", "t">> }

\* dangerous_patterns.txt after the user removed the rm pattern from it
EditedDangerousFile == PresentFile(<< <<"m", "k", "f", "s">> >>)

InitClassify ==
    /\ pc = "classify"
    /\ safety_mode = 0
    /\ autocorrect_mode = FALSE
    /\ env \in {e \in Environments : e.shell_type = "unix" /\ e.history_writable}
    /\ dangerous_patterns_txt \in
          DangerousFiles \cup {EditedDangerousFile, UnreadableFile}
    /\ safe_patterns_txt \in SafeFiles \cup {UnreadableFile}
    /\ command_history = <<>>
    /\ history0 = <<>>
    /\ shell_history = <<>>
    /\ commands = <<>>
    /\ cmd = <<>>
    /\ cmds = <<>>
    /\ idx = 0
    /\ result = NoResult
    /\ fixed_cmd = <<>>
    /\ trace = <<>>
    /\ exit_status = -1
    /\ interrupted = FALSE
    /\ cmd_or_sequence = <<>>
    /\ running = FALSE
    /\ crashed = ""

\* One call of analyze_command_safety(c)
Classify(c) ==
    /\ pc = "classify"
    /\ Len(trace) < MaxClassified
    /\ cmd' = c
    /\ IF load_raises
       THEN /\ Crash("PermissionError")
            /\ UNCHANGED trace
       ELSE /\ trace' = Append(trace, Event("classify", c, analyze(c).is_safe))
            /\ UNCHANGED <<pc, ending>>
    /\ UNCHANGED <<settings, command_history, shell_history, commands,
                   cmds, idx, result, fixed_cmd, interrupted, cmd_or_sequence,
                   running>>

NextClassify == \E c \in ClassifyInputs : Classify(c)

SpecClassify == InitClassify /\ [][NextClassify]_vars

(***************************************************************************)
(* Properties.                                                             *)
(***************************************************************************)
IsExec(e) == e.kind = "exec"

IsPrompt(e) == e.kind = "prompt"

IsClassify(e) == e.kind = "classify"

\* The commands handed to the execution engine so far, in order
Execs == SelectSeq(trace, IsExec)

\* The step just taken ran command c to exit code 0 on a path that records it
Recorded(c) ==
    /\ pc \in {"exec_step", "exec_single"}
    /\ Len(trace') = Len(trace) + 1
    /\ IsExec(Last(trace'))
    /\ Last(trace').cmd = c
    /\ Last(trace').val = 0

\* s without its adjacent repeats
RECURSIVE Dedup(_)
Dedup(s) ==
    IF Len(s) <= 1 THEN s
    ELSE IF s[Len(s)] = s[Len(s) - 1]
         THEN Dedup(SubSeq(s, 1, Len(s) - 1))
         ELSE Append(Dedup(SubSeq(s, 1, Len(s) - 1)), s[Len(s)])

\* The newest n entries of s
Newest(s, n) == [i \in 1..(IF Len(s) < n THEN Len(s) ELSE n) |->
                    s[i + (IF Len(s) < n THEN 0 ELSE Len(s) - n)]]

\* C1: in both flows no command reaches the execution engine before a
\* confirmation prompt has been answered, unless SafetyMode is 1 and every
\* command classified so far is Safe; so an Unsafe single command, and any
\* command under SafetyMode 0, is prompted for before the first execution.
C1_PromptBeforeExecution ==
    \A i \in 1..Len(trace) :
        IsExec(trace[i]) =>
            \/ \E j \in 1..(i - 1) : IsPrompt(trace[j])
            \/ /\ safety_mode = 1
               /\ \A j \in 1..(i - 1) : IsClassify(trace[j]) => trace[j].val

C1_Witness ==
    /\ safety_mode = 1
    /\ \E i \in 1..Len(trace) :
          /\ IsExec(trace[i])
          /\ \E j \in 1..(i - 1) : IsClassify(trace[j]) /\ ~trace[j].val
          /\ \E j \in 1..(i - 1) : IsPrompt(trace[j])

\* C2: the steps of an accepted sequence of N > 1 steps run strictly in plan
\* order; the first step to return a non-zero exit code is the last one run,
\* and the process exit status is that exit code.
C2_SequenceOrderAndAbort ==
    Len(commands) > 1 =>
        /\ Len(Execs) <= Len(commands)
        /\ \A i \in 1..Len(Execs) :
              /\ Execs[i].cmd = commands[i]
              /\ Execs[i].val # 0 =>
                    /\ i = Len(Execs)
                    /\ pc = "done"
                    /\ exit_status = Execs[i].val

C2_Witness ==
    /\ Len(commands) = 3
    /\ Len(Execs) = 2
    /\ Execs[1].val = 0
    /\ Execs[2].val = 127
    /\ exit_status = 127

\* C3: a sequence of N > 1 steps all classified Safe, under SafetyMode 1 and
\* with every step exiting 0, runs without any prompt, executes all N steps in
\* plan order, records every step in the command-history log, and exits 0.
C3_SafeSequenceAutoRuns ==
    ( /\ pc = "done"
      /\ ~interrupted
      /\ Len(commands) > 1
      /\ safety_mode = 1
      /\ \A i \in 1..Len(trace) : IsClassify(trace[i]) => trace[i].val
      /\ \A i \in 1..Len(Execs) : Execs[i].val = 0 )
    => /\ \A i \in 1..Len(trace) : ~IsPrompt(trace[i])
       /\ Len(Execs) = Len(commands)
       /\ \A i \in 1..Len(commands) : Execs[i].cmd = commands[i]
       /\ \A i \in 1..Len(commands) : commands[i] \in Range(command_history)
       /\ command_history = Newest(Dedup(history0 \o commands), DefaultLimit)
       /\ exit_status = 0

C3_Witness ==
    /\ pc = "done"
    /\ ~interrupted
    /\ Len(commands) = 3
    /\ safety_mode = 1
    /\ \A i \in 1..Len(trace) : IsClassify(trace[i]) => trace[i].val
    /\ Len(Execs) = 3
    /\ \A i \in 1..Len(Execs) : Execs[i].val = 0
    /\ exit_status = 0

\* C4: every AI-originated command executed with exit code 0 is in the
\* command-history log afterwards, whichever path executed it: the single
\* command, a picked alternative, a sequence step, an accepted fix.
C4_EverySuccessRecorded ==
    \A i \in 1..Len(trace) :
        (IsExec(trace[i]) /\ trace[i].val = 0) =>
            trace[i].cmd \in Range(command_history)

\* C5: in the single-command flow, when the executed command returns a
\* non-zero exit code, the process exit status is the exit code of the last
\* command the run executed (the failed command, or the fix if one was run).
C5_ExitStatusIsLastExitCode ==
    ( /\ pc = "done"
      /\ ~interrupted
      /\ Len(commands) = 1
      /\ Execs # <<>>
      /\ Execs[1].val # 0 )
    => exit_status = Last(Execs).val

\* C6: when the user declines at a confirmation point so that the declined
\* command is not run (the whole sequence, no valid alternative picked, the
\* fix), the process exit status is 1.
C6_DeclineExitsOne ==
    ( /\ pc = "done"
      /\ ~interrupted
      /\ trace # <<>>
      /\ \/ IsPrompt(Last(trace)) /\ declined(Last(trace).val)
         \/ Last(trace).kind = "choice" )
    => exit_status = 1

\* C7: the command-history log never holds more than the cap; a step that
\* changes it appends one command as the newest entry and, when the log was
\* full, drops the oldest entry only, the others keeping their order.
C7_CapAndOldestFirstEviction ==
    /\ [](Len(command_history) <= DefaultLimit)
    /\ [][ command_history' # command_history =>
              /\ IsExec(Last(trace'))
              /\ IF Len(command_history) < DefaultLimit
                 THEN command_history' =
                          Append(command_history, Last(trace').cmd)
                 ELSE command_history' =
                          Append(Tail(command_history), Last(trace').cmd) ]_vars

C7_Witness ==
    /\ Len(history0) = DefaultLimit
    /\ Len(command_history) = DefaultLimit
    /\ command_history # history0
    /\ Tail(history0) = SubSeq(command_history, 1, DefaultLimit - 1)

\* C8: recording a command equal to the log's last entry leaves the log
\* unchanged, so no two adjacent entries are equal; recording a command that
\* differs from the last entry adds it as the new last entry, even when the
\* same command occurs earlier in the log.
C8_ConsecutiveDedup ==
    /\ [](\A i \in 1..(Len(command_history) - 1) :
              command_history[i] # command_history[i + 1])
    /\ [][ LET c == Last(trace').cmd IN
              Recorded(c) =>
                 IF command_history # <<>> /\ Last(command_history) = c
                 THEN command_history' = command_history
                 ELSE /\ command_history' # command_history
                      /\ Last(command_history') = c
                      /\ \A i \in 1..(Len(command_history') - 1) :
                            command_history'[i] \in Range(command_history) ]_vars

C8_Witness ==
    /\ pc = "done"
    /\ history0 = <<c_ls>>
    /\ commands = <<c_id, c_id, c_ls>>
    /\ Len(Execs) = 3
    /\ command_history = <<c_ls, c_id, c_ls>>

\* C9: a command that matches a configured Safe pattern is classified Safe,
\* whether or not it also matches a Dangerous pattern or triggers the
\* pipe-to-shell, system-directory-redirect or download heuristic.
C9_SafePatternPrecedence ==
    \A i \in 1..Len(trace) :
        ( /\ IsClassify(trace[i])
          /\ \E p \in Range(read_patterns(safe_patterns_txt)) :
                re_search(p, trace[i].cmd) )
        => trace[i].val

C9_Witness ==
    \E i \in 1..Len(trace) :
        /\ IsClassify(trace[i])
        /\ trace[i].val
        /\ \E p \in Range(read_patterns(safe_patterns_txt)) :
              re_search(p, trace[i].cmd)
        /\ \E p \in Range(read_patterns(dangerous_patterns_txt)) :
              re_search(p, trace[i].cmd)

\* C10: every command that contains  rm -rf /  is classified Unsafe, whatever
\* the state of the pattern files (present, absent or edited).
C10_RmRfRootAlwaysUnsafe ==
    \A i \in 1..Len(trace) :
        (IsClassify(trace[i]) /\ Contains(c_rm, trace[i].cmd)) => ~trace[i].val

\* The pattern files of both categories
PatternFiles == {dangerous_patterns_txt, safe_patterns_txt}

\* C11: when a pattern file is absent, loading its category gives the
\* non-empty built-in default list and the defaults are written to disk, so
\* after the first classification each category's file is present and each
\* category has a non-empty pattern list.
C11_DefaultsAfterFirstClassification ==
    (\E i \in 1..Len(trace) : IsClassify(trace[i])) =>
        \A file \in PatternFiles :
            /\ file.state = "present"
            /\ read_patterns(file) # <<>>

\* C12: loading a pattern file never raises: with a file that is missing,
\* unreadable or closed to the user the run is not ended by the load, and the
\* first command handed to the classifier gets its verdict.
C12_PatternLoadNeverRaises ==
    /\ crashed # "PermissionError"
    /\ (pc = "classify" /\ cmd # <<>>) =>
           \E i \in 1..Len(trace) : IsClassify(trace[i]) /\ trace[i].cmd = cmd

\* A text of whitespace only, the texts that hold no command step
IsBlank(text) == \A i \in 1..Len(text) : text[i] \in Whitespace

\* C13: when the oracle output holds zero command steps, the run exits with
\* status 1 and has classified, prompted for and executed nothing, and the
\* command-history log and the shell history are as they were.
C13_ZeroStepsExitsOne ==
    ( /\ pc # "get_cmd"
      /\ ~interrupted
      /\ crashed # "APIError"
      /\ IsBlank(cmd_or_sequence) )
    => /\ pc = "done"
       /\ exit_status = 1
       /\ trace = <<>>
       /\ command_history = history0
       /\ shell_history = <<>>

C13_Witness ==
    /\ pc = "done"
    /\ ~interrupted
    /\ IsBlank(cmd_or_sequence)
    /\ commands = <<>>
    /\ exit_status = 1
    /\ history0 # <<>>

\* The lines of the oracle text that are not blank, in the text's order
NonBlankLines == SelectSeq(split(cmd_or_sequence, "\n"), LAMBDA l : ~IsBlank(l))

\* c is line l without the whitespace at its two ends
Trimmed(l, c) ==
    /\ c # <<>>
    /\ c[1] \notin Whitespace
    /\ c[Len(c)] \notin Whitespace
    /\ \E a \in 0..Len(l) :
          /\ a + Len(c) <= Len(l)
          /\ c = SubSeq(l, a + 1, a + Len(c))
          /\ IsBlank(SubSeq(l, 1, a))
          /\ IsBlank(SubSeq(l, a + Len(c) + 1, Len(l)))

\* C14 as stated: for every oracle text, split returns exactly the non-blank
\* lines of the text, in their order, none empty, none dropped as a repeat.
C14_SplitIsExactlyNonBlankLines ==
    pc = "done" => commands = NonBlankLines

\* C14: for every oracle text, split returns one step per non-blank line of
\* the text, in the text's order, each step being its line with the leading
\* and trailing whitespace removed; no step is empty, a repeated line gives
\* a repeated step.
C14_SplitIsTrimmedNonBlankLines ==
    pc = "done" =>
        /\ Len(commands) = Len(NonBlankLines)
        /\ \A i \in 1..Len(commands) : Trimmed(NonBlankLines[i], commands[i])

C14_Witness ==
    /\ pc = "done"
    /\ cmd_or_sequence = <<" ", "a", "\n", "\n", "a">>
    /\ commands = << <<"a">>, <<"a">> >>

\* C15: a fix is requested only after the single command (never a sequence
\* step) exited non-zero with non-empty stderr while auto-correct was on; the
\* fix is classified and then always prompted for; it runs only after that
\* prompt was not declined, at most once and as the run's last step, so the
\* single-command flow executes at most two commands.
C15_AutoCorrectOneShot ==
    /\ Len(commands) > 1 => fixed_cmd = <<>> /\ pc \notin {"get_fix", "confirm_fix", "exec_fix"}
    /\ (fixed_cmd # <<>> \/ pc \in {"get_fix", "confirm_fix", "exec_fix"}) =>
          /\ Len(commands) = 1
          /\ autocorrect_mode
          /\ Len(Execs) >= 1
          /\ Execs[1].val # 0
          /\ result.returncode = Execs[1].val
          /\ result.stderr # ""
    /\ pc = "confirm_fix" =>
          /\ IsClassify(Last(trace))
          /\ Last(trace).cmd = fixed_cmd
    /\ pc = "exec_fix" =>
          /\ IsPrompt(Last(trace))
          /\ Last(trace).cmd = fixed_cmd
          /\ ~declined(Last(trace).val)
          /\ Len(Execs) = 1
    /\ Len(commands) <= 1 =>
          /\ Len(Execs) <= 2
          /\ Len(Execs) = 2 =>
                /\ pc = "done"
                /\ IsExec(Last(trace))
                /\ Last(trace).cmd = fixed_cmd
                /\ IsPrompt(trace[Len(trace) - 1])
                /\ trace[Len(trace) - 1].cmd = fixed_cmd
                /\ ~declined(trace[Len(trace) - 1].val)

C15_Witness ==
    /\ pc = "done"
    /\ ~interrupted
    /\ Len(commands) = 1
    /\ Len(Execs) = 2
    /\ Execs[1].val = 127
    /\ Execs[2].val = 1
    /\ Execs[2].cmd = fixed_cmd

\* The shells execute_and_handle_history has a history file for
Recognized == new_history_line(env, <<>>) # NoLine

\* The shell history holds the line of every command run or started so far,
\* in their order: the line of a command is there once its process is started
HistoryAheadOfExecution ==
    /\ \A i \in 1..Len(Execs) :
          /\ i <= Len(shell_history)
          /\ shell_history[i] = new_history_line(env, Execs[i].cmd)
    /\ (running /\ pc # "done") =>
          /\ Len(shell_history) = Len(Execs) + 1
          /\ Last(shell_history) = new_history_line(env, current_cmd)

\* C16 as stated: for every command run on a recognized shell, the command's
\* line is in the shell history when its shell process is started, so a
\* command that fails is already in the shell history.
C16_HistoryWrittenBeforeStart ==
    Recognized => HistoryAheadOfExecution

\* C16: for every command run on a recognized shell whose history file can be
\* written, and with NOHISTORY not set, the command's line is in the shell
\* history when its shell process is started, so a command that fails is
\* already in the shell history.
C16_HistoryWrittenBeforeStartWhenWritable ==
    (Recognized /\ ~env.NOHISTORY /\ env.history_writable) =>
        HistoryAheadOfExecution

C16_Witness ==
    /\ Recognized
    /\ ~env.NOHISTORY
    /\ env.history_writable
    /\ ~running
    /\ Len(Execs) = 2
    /\ Execs[2].val = 127
    /\ Len(shell_history) = 2
    /\ shell_history[2] = new_history_line(env, Execs[2].cmd)

\* C17: a failure to write the shell history or the command-history log never
\* fails the run: no run ends on the write's exception, and a sequence whose
\* steps all exit 0 runs every step and exits 0.
C17_HistoryWriteNeverFailsRun ==
    /\ crashed # "OSError"
    /\ ( /\ pc = "done"
         /\ ~interrupted
         /\ crashed # "APIError"
         /\ Len(commands) > 1
         /\ Execs # <<>>
         /\ \A i \in 1..Len(Execs) : Execs[i].val = 0 )
       => /\ Len(Execs) = Len(commands)
          /\ exit_status = 0

\* C18: when a call of the oracle fails or returns nothing the run does not
\* crash: it goes on with a labelled placeholder in place of the answer.
C18_OracleFailureGivesPlaceholder ==
    /\ crashed # "APIError"
    /\ (pc # "get_cmd" /\ ~interrupted /\ cmd_or_sequence = <<>>) =>
           commands # <<>>

\* choice names an entry of the displayed list
valid_index(choice) == isdigit(choice) /\ int(choice) < Len(cmds)

\* C19: in the single-command flow, once the proposed command is declined,
\* whatever runs next is the alternative at the index the user entered, and
\* an entry that is not an index of the displayed list ends the run with no
\* command executed.
C19_DeclinedRunsPickedAlternative ==
    \A p \in 1..Len(trace) :
        ( /\ Len(commands) = 1
          /\ IsPrompt(trace[p])
          /\ declined(trace[p].val)
          /\ \A j \in 1..(p - 1) : ~IsExec(trace[j]) )
        => /\ \A q \in 1..Len(trace) :
                 (IsExec(trace[q]) /\ \A j \in 1..(q - 1) : ~IsExec(trace[j])) =>
                     \E k \in (p + 1)..(q - 1) :
                         /\ trace[k].kind = "choice"
                         /\ valid_index(trace[k].val)
                         /\ trace[q].cmd = cmds[int(trace[k].val) + 1]
           /\ \A k \in 1..Len(trace) :
                 (trace[k].kind = "choice" /\ ~valid_index(trace[k].val)) =>
                     /\ pc = "done"
                     /\ Execs = <<>>
           /\ pc \in {"exec_single", "get_fix", "confirm_fix", "exec_fix"} =>
                 \E k \in (p + 1)..Len(trace) :
                     /\ trace[k].kind = "choice"
                     /\ valid_index(trace[k].val)
                     /\ cmd = cmds[int(trace[k].val) + 1]

C19_Witness ==
    /\ Len(commands) = 1
    /\ Len(trace) >= 2
    /\ IsPrompt(trace[2])
    /\ declined(trace[2].val)
    /\ Len(cmds) = 2
    /\ \E k \in 1..Len(trace) :
          /\ trace[k].kind = "choice"
          /\ trace[k].val = <<"0", "1">>
    /\ Len(Execs) = 1
    /\ Execs[1].cmd = cmds[2]
    /\ Execs[1].cmd # commands[1]

\* The prompts answered so far
Prompts == SelectSeq(trace, IsPrompt)

\* C20: in the sequence flow one step classified Unsafe forces a prompt even
\* under SafetyMode 1; the prompt is one prompt for the whole sequence, before
\* step 1; no prompt follows between steps, so once it is accepted every
\* step, the Unsafe ones too, runs with no confirmation of its own.
C20_SequenceConfirmationAllOrNothing ==
    Len(commands) > 1 =>
        /\ Len(Prompts) <= 1
        /\ \A i \in 1..Len(trace) : \A j \in 1..Len(trace) :
              (IsExec(trace[i]) /\ IsPrompt(trace[j])) => j < i
        /\ ( /\ \E i \in 1..Len(trace) : IsClassify(trace[i]) /\ ~trace[i].val
             /\ pc = "exec_step" \/ Execs # <<>> )
           => /\ Len(Prompts) = 1
              /\ ~declined(Prompts[1].val)
        /\ \A i \in 1..Len(trace) :
              IsPrompt(trace[i]) =>
                  /\ i = Len(commands) + 1
                  /\ \/ safety_mode = 0
                     \/ \E j \in 1..(i - 1) : ~trace[j].val

C20_Witness ==
    /\ pc = "done"
    /\ safety_mode = 1
    /\ Len(commands) = 3
    /\ Len(Prompts) = 1
    /\ Len(Execs) = 3
    /\ Execs[2].cmd = c_rm
    /\ \E i \in 1..Len(trace) :
          IsClassify(trace[i]) /\ trace[i].cmd = c_rm /\ ~trace[i].val

Succeeded == SelectSeq(Execs, LAMBDA e : e.val = 0)

\* The log h after the appends of the commands cs, one after the other: an
\* append of the log's last entry changes nothing, any other is added at the
\* end, and the newest DefaultLimit entries are kept
RECURSIVE LogAfter(_, _)
LogAfter(h, cs) ==
    IF cs = <<>> THEN h
    ELSE LET before == LogAfter(h, SubSeq(cs, 1, Len(cs) - 1))
             c == Last(cs)
         IN  IF before # <<>> /\ Last(before) = c THEN before
             ELSE Newest(Append(before, c), DefaultLimit)

\* C22: in a sequence the log is written step by step: at every moment it is
\* the starting log plus the appends of the steps that have exited 0, so when
\* step i+1 starts steps 1..i are in it, and after an abort at step k it holds
\* the appends of steps 1..k-1 and neither step k nor a later step.
C22_PerStepRecording ==
    Len(commands) > 1 =>
        /\ Len(Succeeded) <= Len(commands)
        /\ command_history =
              LogAfter(history0, SubSeq(commands, 1, Len(Succeeded)))
        /\ (pc = "exec_step" /\ running) => Len(Succeeded) = Len(Execs)
        /\ \A k \in 1..Len(Execs) :
              Execs[k].val # 0 => Len(Succeeded) = k - 1

C22_Witness ==
    /\ pc = "done"
    /\ Len(commands) = 3
    /\ Len(Execs) = 2
    /\ Execs[1].val = 0
    /\ Execs[2].val = 1
    /\ history0 = <<>>
    /\ command_history = <<commands[1]>>

\* C23: a command picked from the alternatives goes to the execution engine
\* as the next thing the run does, with no [Y/n] prompt in between, whatever
\* its verdict and whatever SafetyMode is.
C23_PickedAlternativeRunsUnconfirmed ==
    \A k \in 1..Len(trace) :
        (trace[k].kind = "choice" /\ valid_index(trace[k].val)) =>
            IF k = Len(trace)
            THEN /\ cmd = cmds[int(trace[k].val) + 1]
                 /\ pc = "exec_single" \/ interrupted
            ELSE /\ IsExec(trace[k + 1])
                 /\ trace[k + 1].cmd = cmds[int(trace[k].val) + 1]

C23_Witness ==
    /\ safety_mode = 0
    /\ \E k \in 1..(Len(trace) - 1) :
          /\ trace[k].kind = "choice"
          /\ IsExec(trace[k + 1])
          /\ trace[k + 1].cmd = c_rm
          /\ \E j \in 3..(k - 1) :
                IsClassify(trace[j]) /\ trace[j].cmd = c_rm /\ ~trace[j].val

\* The two answers that decline
ExactlyN == { <<"n">>, <<"N">> }

\* C24: at every [Y/n] prompt, of the single command, the sequence, the fix
\* and the history re-run, the answers n and N decline and nothing is run
\* next; every other answer, the empty one and "no" too, accepts, and the
\* execution is what the run does next.
C24_OnlyExactNDeclines ==
    \A i \in 1..Len(trace) :
        IsPrompt(trace[i]) =>
            IF trace[i].val \in ExactlyN
            THEN /\ i = Len(trace) \/ ~IsExec(trace[i + 1])
                 /\ i = Len(trace) =>
                       pc \notin {"exec_single", "exec_step", "exec_fix",
                                  "exec_history"}
            ELSE IF i = Len(trace)
                 THEN \/ pc \in {"exec_single", "exec_step", "exec_fix",
                                 "exec_history"}
                      \/ interrupted
                 ELSE IsExec(trace[i + 1])

C24_Witness ==
    /\ Len(trace) = 3
    /\ trace[1].kind = "choice"
    /\ IsPrompt(trace[2])
    /\ trace[2].val = <<"n", "o">>
    /\ IsExec(trace[3])
    /\ trace[3].cmd = trace[2].cmd

\* The run re-ran an entry of the log and the command exited 0
ReRunSucceeded == Execs # <<>> /\ Execs[1].val = 0

\* The number the user entered at the history menu
Entered == int(strip(trace[1].val))

\* C25 as stated: after a re-run of entry i that exits 0 the command is the
\* last entry of the log, position i still holds it and the log has grown by
\* at most one entry; otherwise the log is unchanged.
C25_ReRunKeepsEarlierOccurrence ==
    /\ ~ReRunSucceeded => command_history = history0
    /\ ReRunSucceeded =>
          /\ Execs[1].cmd = history0[Entered]
          /\ Last(command_history) = history0[Entered]
          /\ Len(command_history) <= Len(history0) + 1
          /\ command_history[Entered] = history0[Entered]

\* C25: after a re-run of entry i that exits 0 the command is the last entry
\* of the log: the log is unchanged when the command was its last entry
\* already; otherwise the command is appended, every entry staying where it
\* was, unless the log was full, and then the oldest entry is dropped and
\* the others move down by one.  Otherwise the log is unchanged.
C25_ReRunAppendsUnderCap ==
    /\ ~ReRunSucceeded => command_history = history0
    /\ ReRunSucceeded =>
          /\ Execs[1].cmd = history0[Entered]
          /\ Last(command_history) = history0[Entered]
          /\ command_history =
                IF Last(history0) = history0[Entered]
                THEN history0
                ELSE IF Len(history0) < DefaultLimit
                THEN Append(history0, history0[Entered])
                ELSE Append(Tail(history0), history0[Entered])

C25_Witness ==
    /\ pc = "done"
    /\ ReRunSucceeded
    /\ Len(history0) = DefaultLimit
    /\ Entered = 1
    /\ command_history = Append(Tail(history0), history0[1])

====
